---- MODULE Spec2Model ----
(*
  Jensen-Shannon divergence: the functional kernel
  (torchmetrics/functional/regression/js_divergence.py) and the stateful
  metric JSDivergence (torchmetrics/regression/js_divergence.py).

  Numbers.  A tensor element is a fixed-point integer: the real value v is
  the integer v * Scale.  Sums and differences are exact; products and
  quotients round to the nearest grid point, as a floating-point unit rounds
  to the nearest representable value.  NaN is one extra element.

  Tensors.  A tensor is [shape, rows]: rows holds the data of a 2-D tensor
  (N rows of d elements); the data of a tensor of another rank is never read
  by the code (it raises first) and is not represented.

  Python values.  None is the string PyNone; the other argument values are
  written as Python writes them ("True", "1", "mean", ...).
*)
EXTENDS Integers, Sequences, FiniteSets, TLC

(***************************************************************************)
(* Bounds of the model                                                     *)
(***************************************************************************)
\* largest number of rows N of one batch
MaxRows == 2
\* largest number of successful update calls between two resets
MaxUpdates == 2

(***************************************************************************)
(* Fixed-point arithmetic standing for the float tensor runtime            *)
(***************************************************************************)
Scale == 10 * 10 * 10
Half == Scale \div 2
Ln2 == (693 * Scale) \div (10 * 10 * 10)
NaN == 0 - (Scale * Scale)

PyNone == "<None>"

\* a / b rounded to the nearest integer (b > 0)
RoundDiv(a, b) == (2 * a + b) \div (2 * b)

\* elementwise product of two fixed-point numbers
Mul(a, b) == RoundDiv(a * b, Scale)

\* elementwise quotient of two fixed-point numbers; 0/0 is NaN as in IEEE
Div(a, b) ==
    IF b = 0 THEN NaN
    ELSE IF b < 0 THEN RoundDiv((0 - a) * Scale, 0 - b)
    ELSE RoundDiv(a * Scale, b)

RECURSIVE Pow2(_)
Pow2(k) == IF k <= 0 THEN 1 ELSE 2 * Pow2(k - 1)

\* torch.exp: e^x = 2^k * e^r with x = k*ln2 + r, 0 <= r < ln2
Exp(x) ==
    LET k == x \div Ln2
        r == x - k * Ln2
        r2 == Mul(r, r)
        r3 == Mul(r2, r)
        r4 == Mul(r3, r)
        er == Scale + r + r2 \div 2 + r3 \div 6 + r4 \div 24
    IN  IF k >= 0 THEN er * Pow2(k) ELSE RoundDiv(er, Pow2(0 - k))

\* ln y for Scale <= y < 2*Scale: 2*atanh((y-1)/(y+1))
LnSeries(y) ==
    LET z == Div(y - Scale, y + Scale)
        z2 == Mul(z, z)
        z3 == Mul(z2, z)
        z5 == Mul(z3, z2)
        z7 == Mul(z5, z2)
    IN  2 * (z + z3 \div 3 + z5 \div 5 + z7 \div 7)

RECURSIVE LnRed(_, _)
LnRed(x, k) ==
    IF x >= 2 * Scale THEN LnRed(x \div 2, k + 1)
    ELSE IF x < Scale THEN LnRed(2 * x, k - 1)
    ELSE k * Ln2 + LnSeries(x)

\* torch.log of a positive number
Ln(x) == LnRed(x, 0)

RECURSIVE SumSeq(_)
SumSeq(s) == IF s = <<>> THEN 0 ELSE Head(s) + SumSeq(Tail(s))

RECURSIVE Flatten(_)
Flatten(ss) == IF ss = <<>> THEN <<>> ELSE Head(ss) \o Flatten(Tail(ss))

(***************************************************************************)
(* Tensors                                                                 *)
(***************************************************************************)
\* a 2-D tensor of shape (N, d) from its rows; d is given for N = 0
Tensor2(rows, d) == [shape |-> <<Len(rows), d>>, rows |-> rows]

\* a tensor of the given shape whose data is not represented
TensorOf(shape) == [shape |-> shape, rows |-> <<>>]

Ndim(t) == Len(t.shape)

\* tensor values returned by compute
Scalar(x) == [kind |-> "scalar", num |-> x, vec |-> <<>>]
Vector(v) == [kind |-> "vector", num |-> 0, vec |-> v]
NanVal == [kind |-> "nan", num |-> 0, vec |-> <<>>]
InfVal(sign) == [kind |-> "inf", num |-> sign, vec |-> <<>>]
NoVal == [kind |-> "novalue", num |-> 0, vec |-> <<>>]
\* a Python list handed where a tensor is expected
ListVal == [kind |-> "list", num |-> 0, vec |-> <<>>]

\* tensor.sum() of a 0-d or 1-d tensor
TSum(v) ==
    IF v.kind = "vector" THEN Scalar(SumSeq(v.vec)) ELSE v

\* 0-d float tensor divided by an integer count
ScalarDiv(x, n) ==
    IF n # 0 THEN Scalar(RoundDiv(x, n))
    ELSE IF x = 0 THEN NanVal
    ELSE InfVal(IF x > 0 THEN 1 ELSE 0 - 1)

\* tensor / integer count, elementwise
TDiv(v, n) ==
    IF v.kind = "scalar" THEN ScalarDiv(v.num, n)
    ELSE IF v.kind = "vector" /\ n # 0
         THEN Vector([i \in 1..Len(v.vec) |-> RoundDiv(v.vec[i], n)])
    ELSE IF v.kind = "vector"
         THEN Vector([i \in 1..Len(v.vec) |-> NaN])
    ELSE v


(***************************************************************************)
(* Divergence kernel: functional/regression/js_divergence.py               *)
(***************************************************************************)
\* utilities.checks._check_same_shape: raises RuntimeError when shapes differ
CheckSameShape(p, q) == IF p.shape # q.shape THEN "RuntimeError" ELSE "ok"

\* utilities.compute._safe_xlogy: x * ln(y), and 0 wherever x = 0
SafeXlogy(x, y) == IF x = 0 THEN 0 ELSE Mul(x, Ln(y))

\* log_prob branch of _jsd_update on one row pair (reductions over dim=-1)
RowMeasureLog(p, q) ==
    LET D == 1..Len(p)
        p_prob == [i \in D |-> Exp(p[i])]
        q_prob == [i \in D |-> Exp(q[i])]
        m == [i \in D |-> Ln(Mul(Half, p_prob[i] + q_prob[i]))]
        measure1 == SumSeq([i \in D |-> Mul(p_prob[i], p[i] - m[i])])
        measure2 == SumSeq([i \in D |-> Mul(q_prob[i], q[i] - m[i])])
    IN  Mul(Half, measure1 + measure2)

\* probability branch of _jsd_update on one row pair
RowMeasureProb(p0, q0) ==
    LET D == 1..Len(p0)
        p == [i \in D |-> Div(p0[i], SumSeq(p0))]
        q == [i \in D |-> Div(q0[i], SumSeq(q0))]
        m == [i \in D |-> Mul(Half, p[i] + q[i])]
        measure1 == SumSeq([i \in D |-> SafeXlogy(p[i], Div(p[i], m[i]))])
        measure2 == SumSeq([i \in D |-> SafeXlogy(q[i], Div(q[i], m[i]))])
    IN  Mul(Half, measure1 + measure2)

\* _jsd_update with the rank looked at before the shapes are compared
JsdUpdate_RankFirst(p, q, log_prob) ==
    IF Ndim(p) # 2 \/ Ndim(q) # 2
    THEN [err |-> "ValueError", measures |-> <<>>, total |-> 0]
    ELSE IF CheckSameShape(p, q) # "ok"
    THEN [err |-> CheckSameShape(p, q), measures |-> <<>>, total |-> 0]
    ELSE [err |-> "ok",
          measures |-> [n \in 1..Len(p.rows) |->
                           IF log_prob
                           THEN RowMeasureLog(p.rows[n], q.rows[n])
                           ELSE RowMeasureProb(p.rows[n], q.rows[n])],
          total |-> p.shape[1]]

\* _jsd_update: [err, measures, total]; err # "ok" means the call raised
\* and returned nothing
JsdUpdate(p, q, log_prob) ==
    IF CheckSameShape(p, q) # "ok"
    THEN [err |-> CheckSameShape(p, q), measures |-> <<>>, total |-> 0]
    ELSE IF Ndim(p) # 2 \/ Ndim(q) # 2
    THEN [err |-> "ValueError", measures |-> <<>>, total |-> 0]
    ELSE [err |-> "ok",
          measures |-> [n \in 1..Len(p.rows) |->
                           IF log_prob
                           THEN RowMeasureLog(p.rows[n], q.rows[n])
                           ELSE RowMeasureProb(p.rows[n], q.rows[n])],
          total |-> p.shape[1]]

\* which return statement of _jsd_compute is taken
JsdComputeBranch(reduction) ==
    IF reduction = "sum" THEN "sum"
    ELSE IF reduction = "mean" THEN "mean"
    ELSE IF reduction = PyNone \/ reduction = "none" THEN "none"
    ELSE "fallback"

\* _jsd_compute refusing to divide by a count of zero
JsdCompute_GuardsZero(measures, total, reduction) ==
    LET b == JsdComputeBranch(reduction) IN
    IF b = "sum" THEN [err |-> "ok", val |-> TSum(measures)]
    ELSE IF b = "mean" THEN
        IF total = 0 THEN [err |-> "ZeroDivisionError", val |-> NoVal]
        ELSE [err |-> "ok", val |-> TDiv(TSum(measures), total)]
    ELSE IF b = "none" THEN [err |-> "ok", val |-> measures]
    ELSE [err |-> "ok", val |-> TDiv(measures, total)]

\* _jsd_compute: [err, val]; a Python list has neither .sum() nor /
JsdCompute(measures, total, reduction) ==
    LET b == JsdComputeBranch(reduction) IN
    IF b = "sum" THEN
        IF measures.kind = "list" THEN [err |-> "AttributeError", val |-> NoVal]
        ELSE [err |-> "ok", val |-> TSum(measures)]
    ELSE IF b = "mean" THEN
        IF measures.kind = "list" THEN [err |-> "AttributeError", val |-> NoVal]
        ELSE [err |-> "ok", val |-> TDiv(TSum(measures), total)]
    ELSE IF b = "none" THEN [err |-> "ok", val |-> measures]
    ELSE IF measures.kind = "list" THEN [err |-> "TypeError", val |-> NoVal]
    ELSE [err |-> "ok", val |-> TDiv(measures, total)]

\* js_divergence that always averages, whatever reduction it is given
JsDivergence_AlwaysMean(p, q, log_prob, reduction) ==
    LET u == JsdUpdate(p, q, log_prob) IN
    IF u.err # "ok" THEN [err |-> u.err, val |-> NoVal]
    ELSE JsdCompute(Vector(u.measures), u.total, "mean")

\* js_divergence: update then compute on the single batch
JsDivergence(p, q, log_prob, reduction) ==
    LET u == JsdUpdate(p, q, log_prob) IN
    IF u.err # "ok" THEN [err |-> u.err, val |-> NoVal]
    ELSE JsdCompute(Vector(u.measures), u.total, reduction)

(***************************************************************************)
(* Accumulator: regression/js_divergence.py, class JSDivergence            *)
(***************************************************************************)
\* argument values a caller may hand to the constructor
LogProbArgs == {"True", "False", "1", PyNone}
ReductionArgs == {"mean", "sum", "none", PyNone, "max"}

\* isinstance(v, bool)
IsBool(v) == v \in {"True", "False"}

\* Python truth value of v, as `if log_prob:` takes it
Truthy(v) == v \in {"True", "1"}

allowed_reduction == {"mean", "sum", "none", PyNone}

\* the states registered by add_state, with their default values
TensorState(x) == [kind |-> "tensor", num |-> x, list |-> <<>>]
ListState(l) == [kind |-> "list", num |-> 0, list |-> l]

DefaultMeasures(reduction) ==
    IF reduction \in {"mean", "sum"} THEN TensorState(0) ELSE ListState(<<>>)

DefaultTotal == 0

\* the dist_reduce_fx each state is registered with
DistReduceFx(reduction) ==
    [measures |-> IF reduction \in {"mean", "sum"} THEN "sum" ELSE "cat",
     total |-> "sum"]

\* __init__ without the check of reduction
InitCheck_NoReductionCheck(lp, red) ==
    IF ~IsBool(lp) THEN "TypeError" ELSE "ok"

\* the argument checks of __init__, in the order of the code
InitCheck(lp, red) ==
    IF ~IsBool(lp) THEN "TypeError"
    ELSE IF red \notin allowed_reduction THEN "ValueError"
    ELSE "ok"

\* update counting batches instead of samples
UpdateState_CountsBatches(m, t, reduction, u) ==
    IF reduction = PyNone \/ reduction = "none"
    THEN [err |-> "ok", measures |-> ListState(Append(m.list, u.measures)),
          total |-> t]
    ELSE [err |-> "ok", measures |-> TensorState(m.num + SumSeq(u.measures)),
          total |-> t + 1]

\* update assigning the count of the batch instead of adding it
UpdateState_AssignsTotal(m, t, reduction, u) ==
    IF reduction = PyNone \/ reduction = "none"
    THEN [err |-> "ok", measures |-> ListState(Append(m.list, u.measures)),
          total |-> t]
    ELSE [err |-> "ok", measures |-> TensorState(m.num + SumSeq(u.measures)),
          total |-> u.total]

\* update putting the new vector in front of the list
UpdateState_Prepends(m, t, reduction, u) ==
    IF reduction = PyNone \/ reduction = "none"
    THEN [err |-> "ok", measures |-> ListState(<<u.measures>> \o m.list),
          total |-> t]
    ELSE [err |-> "ok", measures |-> TensorState(m.num + SumSeq(u.measures)),
          total |-> t + u.total]

\* update adding the count in every reduction mode
UpdateState_AlwaysCounts(m, t, reduction, u) ==
    IF reduction = PyNone \/ reduction = "none"
    THEN [err |-> "ok", measures |-> ListState(Append(m.list, u.measures)),
          total |-> t + u.total]
    ELSE [err |-> "ok", measures |-> TensorState(m.num + SumSeq(u.measures)),
          total |-> t + u.total]

\* body of update after the kernel returned u: [err, measures, total]
UpdateState(m, t, reduction, u) ==
    IF reduction = PyNone \/ reduction = "none"
    THEN IF m.kind = "list"
         THEN [err |-> "ok", measures |-> ListState(Append(m.list, u.measures)),
               total |-> t]
         ELSE [err |-> "AttributeError", measures |-> m, total |-> t]
    ELSE IF m.kind = "tensor"
         THEN [err |-> "ok", measures |-> TensorState(m.num + SumSeq(u.measures)),
               total |-> t + u.total]
         ELSE [err |-> "TypeError", measures |-> m, total |-> t]

\* utilities.data.dim_zero_cat: a tensor as it is, a list concatenated along
\* dimension 0 in list order
DimZeroCat(m) ==
    IF m.kind = "tensor" THEN Scalar(m.num) ELSE Vector(Flatten(m.list))

\* the first statement of compute: what is handed to _jsd_compute
ComputeInput(m, reduction) ==
    IF reduction \in {"none", PyNone} THEN DimZeroCat(m)
    ELSE IF m.kind = "tensor" THEN Scalar(m.num)
    ELSE ListVal

\* compute on the states (m, t)
ComputeOf(m, t, reduction) == JsdCompute(ComputeInput(m, reduction), t, reduction)

(***************************************************************************)
(* Inputs                                                                  *)
(***************************************************************************)
\* row pairs <<p row, q row>>: raw probabilities, with exact zeros
ProbPairs ==
    { << <<Scale, 0>>, <<0, Scale>> >>,
      << <<3 * Scale, Scale>>, <<Half, Half>> >> }

\* row pairs of log-probabilities
LogPairs ==
    { << <<Ln(Half), Ln(Half)>>, <<Ln(Half \div 2), Ln(Half + Half \div 2)>> >>,
      << <<Ln(Half), Ln(Half)>>, <<Ln(Half), Ln(Half)>> >> }

RowPairs(log_prob) == IF log_prob THEN LogPairs ELSE ProbPairs

\* the batch (p, q) made of a sequence of row pairs
BatchOf(pairs) ==
    [p |-> Tensor2([n \in 1..Len(pairs) |-> pairs[n][1]], 2),
     q |-> Tensor2([n \in 1..Len(pairs) |-> pairs[n][2]], 2)]

\* valid batches: p and q of one shape (N, d), 0 <= N <= MaxRows
ValidBatches(log_prob) ==
    UNION { { BatchOf(s) : s \in [1..n -> RowPairs(log_prob)] } : n \in 0..MaxRows }

\* argument pairs the kernel rejects
BadInputs ==
    { [p |-> TensorOf(<<3>>), q |-> TensorOf(<<2>>)],
      [p |-> TensorOf(<<2, 2, 2>>), q |-> TensorOf(<<2, 2, 2>>)],
      [p |-> Tensor2(<< <<Half, Half>> >>, 2),
       q |-> Tensor2(<< <<Half, Half>>, <<Half, Half>> >>, 2)] }

InputsLog == ValidBatches(TRUE) \cup BadInputs
InputsProb == ValidBatches(FALSE) \cup BadInputs

\* what a caller may hand to update, by the meaning the elements have
Inputs(lp) == IF lp THEN InputsLog ELSE InputsProb

(***************************************************************************)
(* State                                                                   *)
(***************************************************************************)
VARIABLES
    pc,         \* "new": not constructed, "live": constructed, "dead": __init__ raised
    log_prob,   \* self.log_prob
    reduction,  \* self.reduction
    measures,   \* self.measures
    total,      \* self.total
    op,         \* the call made last
    err,        \* the exception the last call raised, or "ok"
    result,     \* the value the last call returned (NoVal: None, or it raised)
    args,       \* the arguments of the constructor call
    seen,       \* the successful updates since construction or reset: the batch
                \* (p, q) of each and the per-sample measures the kernel returned
    ranks,      \* distributed run: measures and total of the instance of each
                \* process, and the number of batches it was fed
    synced,     \* distributed run: what compute returns on the merged states
    call,       \* kernel call: the function called and its arguments
    ret         \* kernel call: what the call returned

vars == <<pc, log_prob, reduction, measures, total, op, err, result, args, seen,
          ranks, synced, call, ret>>

\* the variables of the distributed run and of the direct kernel calls
dist == <<ranks, synced>>
direct == <<call, ret>>

Unset == "<unset>"

\* the processes of a distributed run
Ranks == {1, 2}

Init ==
    /\ pc = "new"
    /\ log_prob = Unset
    /\ reduction = Unset
    /\ measures = TensorState(0)
    /\ total = 0
    /\ op = "none"
    /\ err = "ok"
    /\ result = NoVal
    /\ args = [log_prob |-> Unset, reduction |-> Unset]
    /\ seen = <<>>
    /\ ranks = [r \in Ranks |-> [measures |-> TensorState(0), total |-> 0, fed |-> 0]]
    /\ synced = [err |-> "ok", val |-> NoVal]
    /\ call = [fn |-> "none", p |-> TensorOf(<<>>), q |-> TensorOf(<<>>),
               log_prob |-> FALSE]
    /\ ret = [err |-> "ok", measures |-> <<>>, total |-> 0]

\* JSDivergence(log_prob=lp, reduction=red)
ConstructBody(lp, red) ==
    /\ pc = "new"
    /\ op' = "__init__"
    /\ args' = [log_prob |-> lp, reduction |-> red]
    /\ err' = InitCheck(lp, red)
    /\ IF InitCheck(lp, red) = "ok"
       THEN /\ pc' = "live"
            /\ log_prob' = lp
            /\ reduction' = red
            /\ measures' = DefaultMeasures(red)
            /\ total' = DefaultTotal
       ELSE /\ pc' = "dead"
            /\ UNCHANGED <<log_prob, reduction, measures, total>>
    /\ UNCHANGED <<result, seen>>

Construct(lp, red) == ConstructBody(lp, red) /\ UNCHANGED <<dist, direct>>

\* update adding the row count of p before the kernel checks the arguments
UpdateBody_CountsFirst(b) ==
    /\ pc = "live"
    /\ b \in BadInputs \/ Len(seen) < MaxUpdates
    /\ \E u \in {JsdUpdate(b.p, b.q, Truthy(log_prob))} :
         IF u.err # "ok"
         THEN /\ err' = u.err
              /\ total' = total + b.p.shape[1]
              /\ UNCHANGED <<measures, seen>>
         ELSE \E s \in {UpdateState(measures, total, reduction, u)} :
              /\ err' = s.err
              /\ measures' = s.measures
              /\ total' = s.total
              /\ seen' = IF s.err = "ok"
                         THEN Append(seen, [p |-> b.p, q |-> b.q,
                                            measures |-> u.measures])
                         ELSE seen
    /\ op' = "update"
    /\ result' = NoVal
    /\ UNCHANGED <<pc, log_prob, reduction, args>>

\* self.update(b.p, b.q); MaxUpdates caps the successful updates, a call that
\* raises is possible at any time
UpdateBody(b) ==
    /\ pc = "live"
    /\ b \in BadInputs \/ Len(seen) < MaxUpdates
    /\ \E u \in {JsdUpdate(b.p, b.q, Truthy(log_prob))} :
         IF u.err # "ok"
         THEN /\ err' = u.err
              /\ UNCHANGED <<measures, total, seen>>
         ELSE \E s \in {UpdateState(measures, total, reduction, u)} :
              /\ err' = s.err
              /\ measures' = s.measures
              /\ total' = s.total
              /\ seen' = IF s.err = "ok"
                         THEN Append(seen, [p |-> b.p, q |-> b.q,
                                            measures |-> u.measures])
                         ELSE seen
    /\ op' = "update"
    /\ result' = NoVal
    /\ UNCHANGED <<pc, log_prob, reduction, args>>

Update(b) == UpdateBody(b) /\ UNCHANGED <<dist, direct>>

\* compute keeping the concatenated list in place of the list
ComputeBody_KeepsCat ==
    /\ pc = "live"
    /\ LET r == ComputeOf(measures, total, reduction)
       IN  /\ err' = r.err
           /\ result' = r.val
    /\ measures' = IF measures.kind = "list"
                   THEN ListState(<<Flatten(measures.list)>>)
                   ELSE measures
    /\ op' = "compute"
    /\ UNCHANGED <<pc, log_prob, reduction, total, args, seen>>

\* self.compute()
ComputeBody ==
    /\ pc = "live"
    /\ LET r == ComputeOf(measures, total, reduction)
       IN  /\ err' = r.err
           /\ result' = r.val
    /\ op' = "compute"
    /\ UNCHANGED <<pc, log_prob, reduction, measures, total, args, seen>>

Compute == ComputeBody /\ UNCHANGED <<dist, direct>>

\* Metric.reset(): every registered state back to its default
Reset ==
    /\ pc = "live"
    /\ measures' = DefaultMeasures(reduction)
    /\ total' = DefaultTotal
    /\ seen' = <<>>
    /\ op' = "reset"
    /\ err' = "ok"
    /\ result' = NoVal
    /\ UNCHANGED <<pc, log_prob, reduction, args, dist, direct>>

Next ==
    \/ \E lp \in LogProbArgs, red \in ReductionArgs : Construct(lp, red)
    \/ \E b \in Inputs(Truthy(log_prob)) : Update(b)
    \/ Compute
    \/ Reset

Spec == Init /\ [][Next]_vars

(***************************************************************************)
(* Distributed run: one instance per process, every batch to one of them,  *)
(* next to one instance that receives every batch                          *)
(***************************************************************************)
\* Metric sync: the states of the two processes merged by the
\* dist_reduce_fx of each, "sum" by addition and "cat" by concatenation
SyncMeasures(a, b, fx) ==
    IF fx = "sum" THEN TensorState(a.num + b.num)
    ELSE ListState(a.list \o b.list)

SyncTotal(a, b, fx) == a + b

\* the same constructor call in every process
DistConstruct(lp, red) ==
    /\ ConstructBody(lp, red)
    /\ ranks' = IF InitCheck(lp, red) = "ok"
                THEN [r \in Ranks |->
                        [measures |-> DefaultMeasures(red), total |-> DefaultTotal,
                         fed |-> 0]]
                ELSE ranks
    /\ UNCHANGED <<synced, direct>>

\* process r receives the valid batch b; the instance that stands for the
\* undistributed run receives it too
DistUpdate(r, b) ==
    /\ pc = "live"
    /\ ranks[1].fed + ranks[2].fed < MaxUpdates
    /\ \E u \in {JsdUpdate(b.p, b.q, Truthy(log_prob))} :
       \E s \in {UpdateState(measures, total, reduction, u)} :
       \E t \in {UpdateState(ranks[r].measures, ranks[r].total, reduction, u)} :
         /\ u.err = "ok"
         /\ err' = s.err
         /\ measures' = s.measures
         /\ total' = s.total
         /\ ranks' = [ranks EXCEPT ![r] = [measures |-> t.measures,
                                           total |-> t.total,
                                           fed |-> ranks[r].fed + 1]]
    /\ op' = "update"
    /\ result' = NoVal
    /\ synced' = [err |-> "ok", val |-> NoVal]
    /\ UNCHANGED <<pc, log_prob, reduction, args, seen, direct>>

\* compute after the states of the processes were merged
DistCompute ==
    /\ ComputeBody
    /\ synced' = ComputeOf(SyncMeasures(ranks[1].measures, ranks[2].measures,
                                        DistReduceFx(reduction).measures),
                           SyncTotal(ranks[1].total, ranks[2].total,
                                     DistReduceFx(reduction).total),
                           reduction)
    /\ UNCHANGED <<ranks, direct>>

NextDist ==
    \/ \E lp \in LogProbArgs, red \in ReductionArgs : DistConstruct(lp, red)
    \/ \E r \in Ranks, b \in ValidBatches(Truthy(log_prob)) : DistUpdate(r, b)
    \/ DistCompute

SpecDist == Init /\ [][NextDist]_vars

(***************************************************************************)
(* Direct calls of the kernel                                              *)
(***************************************************************************)
\* the rows the batches of the model are made of
KernelRows(lp) == {pr[1] : pr \in RowPairs(lp)} \cup {pr[2] : pr \in RowPairs(lp)}

\* tensors a caller may hand to the kernel: 2-D of any row count, and others
KernelTensors(lp) ==
    UNION { { Tensor2(s, 2) : s \in [1..n -> KernelRows(lp)] } : n \in 0..MaxRows }
    \cup { TensorOf(<<2>>), TensorOf(<<3>>), TensorOf(<<2, 2, 2>>),
           Tensor2(<< <<Half, Half, Scale>> >>, 3) }

\* _jsd_update(p, q, lp)
CallJsdUpdate(p, q, lp) ==
    /\ call.fn = "none"
    /\ call' = [fn |-> "_jsd_update", p |-> p, q |-> q, log_prob |-> lp]
    /\ ret' = JsdUpdate(p, q, lp)
    /\ UNCHANGED <<pc, log_prob, reduction, measures, total, op, err, result,
                   args, seen, dist>>

NextKernel ==
    \E lp \in BOOLEAN : \E p \in KernelTensors(lp), q \in KernelTensors(lp) :
        CallJsdUpdate(p, q, lp)

SpecKernel == Init /\ [][NextKernel]_vars

(***************************************************************************)
(* What the history of successful updates determines                       *)
(***************************************************************************)
\* per-sample measures of the i-th successful update
SeenMeasures(i) == seen[i].measures

\* row count N_i of the i-th successful update
SeenRows(i) == seen[i].p.shape[1]

RECURSIVE SumTo(_, _)
SumTo(f, n) == IF n = 0 THEN 0 ELSE f[n] + SumTo(f, n - 1)

\* sum of the per-sample measures of all batches seen
SeenSum == SumTo([i \in 1..Len(seen) |-> SumSeq(SeenMeasures(i))], Len(seen))

\* number of samples of all batches seen
SeenCount == SumTo([i \in 1..Len(seen) |-> SeenRows(i)], Len(seen))

\* per-sample measures of all batches seen, in the order of the update calls
SeenSamples == Flatten([i \in 1..Len(seen) |-> SeenMeasures(i)])

Aggregating == reduction \in {"mean", "sum"}
PerSample == reduction \in {"none", PyNone}
Computed == pc = "live" /\ op = "compute"

(***************************************************************************)
(* Claims                                                                  *)
(***************************************************************************)
\* C1: with reduction "mean", after two successful updates on batches of
\* N1 >= 1 and N2 >= 1 rows whose measures sum to sum1 and sum2, compute
\* returns (sum1 + sum2) / (N1 + N2).
C1_MeanIsWeighted ==
    (Computed /\ reduction = "mean" /\ Len(seen) = 2
        /\ SeenRows(1) >= 1 /\ SeenRows(2) >= 1)
    => /\ err = "ok"
       /\ result = Scalar(RoundDiv(SumSeq(SeenMeasures(1)) + SumSeq(SeenMeasures(2)),
                                   SeenRows(1) + SeenRows(2)))

\* the unweighted average of the two batch means
UnweightedMean ==
    Scalar(RoundDiv(RoundDiv(SumSeq(SeenMeasures(1)), SeenRows(1))
                    + RoundDiv(SumSeq(SeenMeasures(2)), SeenRows(2)), 2))

\* two batches of different sizes where the weighted mean returned is not
\* the average of the batch means
C1_Witness ==
    /\ Computed /\ reduction = "mean" /\ Len(seen) = 2
    /\ SeenRows(1) >= 1 /\ SeenRows(2) >= 1 /\ SeenRows(1) # SeenRows(2)
    /\ result # UnweightedMean

\* C2: with reduction "mean" or "sum", however the batches are spread over
\* the processes, compute on the sum of their measures and the sum of their
\* totals returns what the one instance that received every batch returns.
C2_MergeByAddition ==
    (Computed /\ Aggregating) => synced = [err |-> err, val |-> result]

\* both processes received a batch, of different sizes
C2_Witness ==
    /\ Computed /\ reduction = "mean"
    /\ ranks[1].fed = 1 /\ ranks[2].fed = 1
    /\ ranks[1].total >= 1 /\ ranks[2].total >= 1
    /\ ranks[1].total # ranks[2].total
    /\ synced.val = result /\ result.kind = "scalar" /\ result.num > 0

C4_PerSampleInOrder ==
    (Computed /\ PerSample /\ Len(seen) >= 1)
    => /\ err = "ok"
       /\ result = Vector(SeenSamples)
       /\ Len(result.vec) = SeenCount

\* two updates whose order shows in the result
C4_Witness ==
    /\ Computed /\ PerSample /\ Len(seen) = 2
    /\ SeenMeasures(1) \o SeenMeasures(2) # SeenMeasures(2) \o SeenMeasures(1)
    /\ result.vec = SeenMeasures(1) \o SeenMeasures(2)

\* C5: _jsd_update compares the shapes before it looks at the rank: it raises
\* the shape error whenever the shapes differ, whatever the ranks, and the
\* rank error only for equal shapes of a rank other than 2; in both cases it
\* returns no measures and no count.
C5_ShapeBeforeRank ==
    call.fn = "_jsd_update" =>
       /\ call.p.shape # call.q.shape => ret.err = "RuntimeError"
       /\ ret.err = "ValueError" <=>
              (call.p.shape = call.q.shape /\ Ndim(call.p) # 2)
       /\ ret.err # "ok" => ret.measures = <<>> /\ ret.total = 0
       /\ ret.err = "ok" => /\ Len(ret.measures) = call.p.shape[1]
                            /\ ret.total = call.p.shape[1]

\* shapes that differ and a rank that is not 2: the shape error wins
C5_Witness ==
    /\ call.fn = "_jsd_update"
    /\ call.p.shape # call.q.shape /\ Ndim(call.p) # 2 /\ Ndim(call.q) = 2
    /\ ret.err = "RuntimeError"

\* C6: the constructor raises exactly when log_prob is not a bool or
\* reduction is not one of "mean", "sum", "none", None; a constructed
\* accumulator holds a bool and one of the four reductions, and its compute
\* never takes the fallback return of _jsd_compute.
C6_ConstructorValidates ==
    /\ pc = "dead" <=> (op # "none" /\ (~IsBool(args.log_prob)
                                        \/ args.reduction \notin allowed_reduction))
    /\ pc = "dead" => err \in {"TypeError", "ValueError"}
    /\ pc = "live" => /\ IsBool(log_prob)
                      /\ reduction \in allowed_reduction
                      /\ JsdComputeBranch(reduction) # "fallback"

C6_Witness ==
    /\ pc = "dead" /\ err = "ValueError"
    /\ IsBool(args.log_prob) /\ args.reduction = "max"

\* C7: compute leaves measures and total as they are, two consecutive
\* compute calls return the same value, and the value compute returns is the
\* one the successful updates alone determine.
C7_ComputeIsPure ==
    /\ [][op' = "compute" =>
            /\ measures' = measures
            /\ total' = total
            /\ (op = "compute" => result' = result /\ err' = err)]_vars
    /\ [](Computed =>
            [err |-> err, val |-> result] =
                IF Aggregating
                THEN JsdCompute(Scalar(SeenSum), SeenCount, reduction)
                ELSE JsdCompute(Vector(SeenSamples), 0, reduction))

C7_Witness ==
    /\ Computed /\ Len(seen) = 2 /\ reduction = PyNone
    /\ Len(result.vec) = 4

C9_FailedUpdateNoEffect ==
    [][(op' = "update" /\ err' \in {"RuntimeError", "ValueError"}) =>
          /\ measures' = measures
          /\ total' = total
          /\ ComputeOf(measures', total', reduction')
               = ComputeOf(measures, total, reduction)]_vars

C9_Witness ==
    /\ pc = "live" /\ op = "update" /\ err = "ValueError"
    /\ reduction = "none" /\ Len(seen) = 1 /\ Len(measures.list) = 1

\* C10: in "mean"/"sum" mode measures is the scalar sum of the per-sample
\* measures of all batches seen and total the sum of their row counts; in
\* "none"/None mode measures is a list with the per-sample vector of update i
\* as entry i and total stays 0.
C10_StateInvariant ==
    pc = "live" =>
       IF Aggregating
       THEN /\ measures = TensorState(SeenSum)
            /\ total = SeenCount
       ELSE /\ measures.kind = "list"
            /\ Len(measures.list) = Len(seen)
            /\ \A i \in 1..Len(seen) :
                  /\ measures.list[i] = SeenMeasures(i)
                  /\ Len(measures.list[i]) = SeenRows(i)
            /\ total = 0

C10_Witness ==
    /\ pc = "live" /\ reduction = "sum" /\ Len(seen) = 2
    /\ total = 3 /\ measures.num > 0

====
